---- MODULE Spec2Model ----
(***************************************************************************)
(* Blood-bank query service (backend.py): the dataset loader, the three    *)
(* request handlers /nearby, /all-blood-banks and /route, and the library  *)
(* behaviour they rest on (pandas.read_csv cell inference, float(),        *)
(* math.sin on non-finite arguments, list sorting with "<", requests).     *)
(*                                                                         *)
(* The handlers are "async def" without any await, so each one runs to     *)
(* completion on the event loop: one action per handler.                   *)
(***************************************************************************)
EXTENDS Integers, Sequences, FiniteSets, TLC

VARIABLES csv, environ, nearbyResponse, allResponse, routeResponse, outbound

vars == <<csv, environ, nearbyResponse, allResponse, routeResponse, outbound>>

(***************************************************************************)
(* Bounds of the explored inputs.                                          *)
(***************************************************************************)
MaxFree == 3        \* files of up to MaxFree rows: every row of any kind
MaxRows == 11       \* longer files: up to MaxRows rows ...
MaxVaried == 2      \* ... of which at most MaxVaried differ from FillerRow
MaxHeaderEdits == 2 \* header columns dropped or padded with whitespace

(***************************************************************************)
(* Values.  A Python value is modelled as a record [k, v, s]:              *)
(*   k = "fin"  a finite float/int v (degrees for coordinates, metres for  *)
(*              distances),                                                *)
(*   k = "nan"  float NaN,  k = "inf"  float infinity,                     *)
(*   k = "str"  the string s,  k = "none"  None.                           *)
(***************************************************************************)
Fin(v) == [k |-> "fin", v |-> v, s |-> ""]
NaN == [k |-> "nan", v |-> 0, s |-> ""]
Inf == [k |-> "inf", v |-> 0, s |-> ""]
Str(s) == [k |-> "str", v |-> 0, s |-> s]
None == [k |-> "none", v |-> 0, s |-> ""]

Range(f) == {f[i] : i \in DOMAIN f}

Abs(x) == IF x < 0 THEN -x ELSE x

Min(a, b) == IF a < b THEN a ELSE b

(***************************************************************************)
(* Configuration.                                                          *)
(***************************************************************************)
DefaultKey == "9e9f9e52-ce51-4f10-b4e4-f3fd74b63123"

\* os.getenv(name, default) on the process environment
getenv(default) == IF environ.set THEN environ.value ELSE default

GRAPHHOPPER_KEY == getenv(DefaultKey)

col_mapping ==
  [id |-> "Sr No", name |-> "Blood Bank Name", address |-> "Address",
   city |-> "City", state |-> "State", latitude |-> "latitude",
   longitude |-> "longitude"]

\* col_mapping.values(), in insertion order
col_mapping_values ==
  <<col_mapping.id, col_mapping.name, col_mapping.address, col_mapping.city,
    col_mapping.state, col_mapping.latitude, col_mapping.longitude>>

(***************************************************************************)
(* The CSV file.  A header cell is [lead, text, trail]: the column name    *)
(* with lead/trail whitespace characters around it.  A row maps the column *)
(* text to the raw cell text; "Sr No" is kept as the integer it spells.    *)
(***************************************************************************)
Header(text, lead, trail) == [lead |-> lead, text |-> text, trail |-> trail]

\* str.strip() on a column name
strip(h) == [h EXCEPT !.lead = 0, !.trail = 0]

\* Numeric cell texts of the explored grid and the number they spell
NumText == {"0", "30", "-30", "60"}

NumOf(t) ==
  CASE t = "0" -> 0
    [] t = "30" -> 30
    [] t = "-30" -> -30
    [] t = "60" -> 60

\* pandas.read_csv on one cell: an empty cell is NaN, "inf" is float inf,
\* a number is that number, anything else stays a string.  (In a column
\* that also holds strings the numbers stay strings; float() of those
\* gives the same float.)
read_cell(t) ==
  CASE t = "" -> NaN
    [] t = "inf" -> Inf
    [] t \in NumText -> Fin(NumOf(t))
    [] OTHER -> Str(t)

\* pd.read_csv(CSV_PATH): columns as spelled in the file, one mapping per row
read_csv(file) ==
  [columns |-> file.header,
   rows |-> [i \in DOMAIN file.rows |->
              [c \in {file.header[j].text : j \in DOMAIN file.header} |->
                 IF c = "Sr No" THEN Fin(file.rows[i][c])
                 ELSE read_cell(file.rows[i][c])]]]

\* df.columns = df.columns.str.strip()
strip_columns(df) ==
  [df EXCEPT !.columns = [j \in DOMAIN df.columns |-> strip(df.columns[j])]]

\* "col in df.columns"
HasColumn(df, col) == Header(col, 0, 0) \in Range(df.columns)

\* mutant: the check of the required columns finds nothing missing
missing_cols_none(df) == SelectSeq(col_mapping_values, LAMBDA col : FALSE)

\* [col for col in col_mapping.values() if col not in df.columns]
missing_cols(df) == SelectSeq(col_mapping_values, LAMBDA col : ~HasColumn(df, col))

\* df[col] = df[col].fillna("")
fillna(df, col) ==
  [df EXCEPT !.rows = [i \in DOMAIN df.rows |->
     [df.rows[i] EXCEPT ![col] = IF @.k = "nan" THEN Str("") ELSE @]]]

\* float(x): succeeds on floats (NaN and inf included), raises ValueError on
\* a string that spells no number
float(x) ==
  IF x.k \in {"fin", "nan", "inf"}
  THEN [ok |-> TRUE, val |-> x]
  ELSE [ok |-> FALSE, val |-> None]

\* str(x) for the Sr No cell
str(x) == IF x.k = "fin" THEN Str(ToString(x.v)) ELSE Str(x.k)

\* row[col] of a DataFrame row: KeyError when the column does not exist
HasCell(df, row, col) == HasColumn(df, col) /\ col \in DOMAIN row

\* BloodBank(id=..., ..., longitude=float(row[...])): [ok, bank]; ok = FALSE
\* when the construction raises.  distance takes the class default, None.
BloodBank(df, row) ==
  IF \E col \in Range(col_mapping_values) : ~HasCell(df, row, col)
  THEN [ok |-> FALSE, bank |-> None]
  ELSE LET lat == float(row[col_mapping.latitude])
           lon == float(row[col_mapping.longitude])
       IN IF ~lat.ok \/ ~lon.ok
          THEN [ok |-> FALSE, bank |-> None]
          ELSE [ok |-> TRUE,
                bank |-> [id |-> str(row[col_mapping.id]),
                          name |-> row[col_mapping.name],
                          address |-> row[col_mapping.address],
                          city |-> row[col_mapping.city],
                          state |-> row[col_mapping.state],
                          latitude |-> lat.val,
                          longitude |-> lon.val,
                          distance |-> None]]

\* mutant: the first row whose construction raises ends the loop
RECURSIVE iterrows_abort(_, _, _)
iterrows_abort(df, i, banks) ==
  IF i > Len(df.rows) THEN banks
  ELSE LET b == BloodBank(df, df.rows[i])
       IN IF b.ok THEN iterrows_abort(df, i + 1, Append(banks, b.bank)) ELSE banks

\* the "for _, row in df.iterrows()" loop with its try/except: rows
\* i..Len(df.rows) appended to banks, a row whose construction raises is
\* skipped
RECURSIVE iterrows(_, _, _)
iterrows(df, i, banks) ==
  IF i > Len(df.rows) THEN banks
  ELSE LET b == BloodBank(df, df.rows[i])
       IN iterrows(df, i + 1, IF b.ok THEN Append(banks, b.bank) ELSE banks)

\* load_blood_banks(): [ok, banks, detail]; ok = FALSE is the
\* HTTPException(500, "CSV Error: ...") of the outer except (a missing file,
\* missing columns, or the KeyError of df['Address'] / df['City'])
load_blood_banks ==
  IF ~csv.exists
  THEN [ok |-> FALSE, banks |-> <<>>,
        detail |-> <<"CSV Error", "CSV file not found">>]
  ELSE LET df == strip_columns(read_csv(csv))
           missing == missing_cols(df)
       IN IF missing # <<>>
          THEN [ok |-> FALSE, banks |-> <<>>,
                detail |-> <<"CSV Error", "CSV missing required columns">> \o missing]
          ELSE IF ~HasColumn(df, "Address") \/ ~HasColumn(df, "City")
          THEN [ok |-> FALSE, banks |-> <<>>, detail |-> <<"CSV Error", "KeyError">>]
          ELSE [ok |-> TRUE,
                banks |-> iterrows(fillna(fillna(df, "Address"), "City"), 1, <<>>),
                detail |-> <<>>]

(***************************************************************************)
(* haversine.  Coordinates are whole degrees of the grid below; the        *)
(* trigonometric functions are tabulated on it in units of 1/10000, and    *)
(* 2*atan2(sqrt(a), sqrt(1-a)) is tabulated in milliradians on the values  *)
(* of a the grid produces, so that a distance is R * milliradians, i.e.    *)
(* metres.                                                                 *)
(***************************************************************************)
R == 6371

\* sin(radians(d)/2) ** 2, scaled
sin_sq_half(d) ==
  CASE Abs(d) = 0 -> 0
    [] Abs(d) = 30 -> 670
    [] Abs(d) = 60 -> 2500
    [] Abs(d) = 90 -> 5000

\* cos(radians(lat)), scaled
cos_deg(lat) ==
  CASE Abs(lat) = 0 -> 10000
    [] Abs(lat) = 30 -> 8660
    [] Abs(lat) = 60 -> 5000

\* 2 * atan2(sqrt(a), sqrt(1 - a)) in milliradians, a scaled
two_atan2(a) ==
  CASE a = 0 -> 0
    [] a = 167 -> 259
    [] a = 502 -> 452
    [] a = 670 -> 524
    [] a = 960 -> 630
    [] a = 1250 -> 723
    [] a = 2500 -> 1047
    [] a = 2835 -> 1123
    [] a = 3002 -> 1160
    [] a = 5000 -> 1571
    [] a = 5290 -> 1629

\* haversine(lat1, lon1, lat2, lon2) with (lat1, lon1) finite numbers and
\* (lat2, lon2) float values: [ok, val].  math.sin / math.cos raise
\* ValueError("math domain error") on an infinite argument (ok = FALSE);
\* a NaN argument propagates and the result is NaN.
haversine(lat1, lon1, lat2, lon2) ==
  IF lat2.k = "inf" \/ lon2.k = "inf"
  THEN [ok |-> FALSE, val |-> None]
  ELSE IF lat2.k = "nan" \/ lon2.k = "nan"
  THEN [ok |-> TRUE, val |-> NaN]
  ELSE LET dlat == lat2.v - lat1
           dlon == lon2.v - lon1
           a == sin_sq_half(dlat)
                + (((cos_deg(lat1) * cos_deg(lat2.v)) \div 10000)
                     * sin_sq_half(dlon)) \div 10000
       IN [ok |-> TRUE, val |-> Fin(R * two_atan2(a))]

(***************************************************************************)
(* sorted(banks, key=lambda x: x.distance): CPython's list sort for fewer  *)
(* than 64 elements, i.e. count_run on the whole list followed by a binary *)
(* insertion sort of the rest, every comparison being "<" on the keys.     *)
(***************************************************************************)
\* float "<": False whenever an operand is NaN
ISLT(x, y) == x.k = "fin" /\ y.k = "fin" /\ x.v < y.v

key(x) == x.distance

Reverse(a) == [i \in 1..Len(a) |-> a[Len(a) + 1 - i]]

\* count_run: length of the run starting the list, n elements of it known
RECURSIVE count_run(_, _, _)
count_run(a, descending, n) ==
  IF n = Len(a) THEN n
  ELSE IF ISLT(key(a[n + 1]), key(a[n])) = descending
       THEN count_run(a, descending, n + 1)
       ELSE n

\* the binary search of binarysort, on 0-based bounds l < r
RECURSIVE bisect(_, _, _, _)
bisect(a, pivot, l, r) ==
  IF l >= r THEN l
  ELSE LET p == l + ((r - l) \div 2)
       IN IF ISLT(key(pivot), key(a[p + 1]))
          THEN bisect(a, pivot, l, p)
          ELSE bisect(a, pivot, p + 1, r)

\* binarysort: the first start elements are in place, insert the others
RECURSIVE binarysort(_, _)
binarysort(a, start) ==
  IF start >= Len(a) THEN a
  ELSE LET pivot == a[start + 1]
           l == bisect(a, pivot, 0, start)
       IN binarysort(SubSeq(a, 1, l) \o <<pivot>> \o SubSeq(a, l + 1, start)
                       \o SubSeq(a, start + 2, Len(a)),
                     start + 1)

sorted(a) ==
  IF Len(a) < 2 THEN a
  ELSE LET descending == ISLT(key(a[2]), key(a[1]))
           n == count_run(a, descending, 2)
           run == IF descending
                  THEN Reverse(SubSeq(a, 1, n)) \o SubSeq(a, n + 1, Len(a))
                  ELSE a
       IN binarysort(run, n)

(***************************************************************************)
(* Responses.  status 0: no request of that kind was answered yet.         *)
(* request: the request's input; body: the JSON body of a 200; detail: the *)
(* detail of the HTTPException of a 500.                                   *)
(***************************************************************************)
Limit == 10

NoRequest == [latitude |-> 0, longitude |-> 0]

NoResponse == [status |-> 0, request |-> NoRequest, body |-> <<>>, detail |-> <<>>]

\* raise HTTPException(status_code=500, detail=str(e)) of a handler's
\* "except Exception", e being the HTTPException of load_blood_banks
Wrap(detail) == <<"500">> \o detail

\* get_nearby(location)
get_nearby(location) ==
  LET loaded == load_blood_banks
      banks == loaded.banks
      dist == [i \in DOMAIN banks |->
                 haversine(location.latitude, location.longitude,
                           banks[i].latitude, banks[i].longitude)]
      ranked == [i \in DOMAIN banks |-> [banks[i] EXCEPT !.distance = dist[i].val]]
  IN IF ~loaded.ok
     THEN [status |-> 500, request |-> location, body |-> <<>>,
           detail |-> Wrap(loaded.detail)]
     ELSE IF \E i \in DOMAIN banks : ~dist[i].ok
     THEN [status |-> 500, request |-> location, body |-> <<>>,
           detail |-> <<"math domain error">>]
     ELSE [status |-> 200, request |-> location,
           body |-> SubSeq(sorted(ranked), 1, Min(Limit, Len(ranked))),
           detail |-> <<>>]

\* mutant: the banks are loaded once into a module-level list that get_nearby
\* mutates, so the records carry the distances of the last /nearby request
get_all_blood_banks_cached ==
  LET loaded == load_blood_banks
      last == nearbyResponse.request
  IN IF ~loaded.ok
     THEN [status |-> 500, request |-> NoRequest, body |-> <<>>,
           detail |-> Wrap(loaded.detail)]
     ELSE [status |-> 200, request |-> NoRequest,
           body |-> [i \in DOMAIN loaded.banks |->
                       [loaded.banks[i] EXCEPT !.distance =
                          IF nearbyResponse.status = 200
                          THEN haversine(last.latitude, last.longitude,
                                         loaded.banks[i].latitude,
                                         loaded.banks[i].longitude).val
                          ELSE None]],
           detail |-> <<>>]

\* get_all_blood_banks()
get_all_blood_banks ==
  LET loaded == load_blood_banks
  IN IF ~loaded.ok
     THEN [status |-> 500, request |-> NoRequest, body |-> <<>>,
           detail |-> Wrap(loaded.detail)]
     ELSE [status |-> 200, request |-> NoRequest, body |-> loaded.banks,
           detail |-> <<>>]

(***************************************************************************)
(* get_route.  The routing service's reply is an input: a network failure  *)
(* or a final HTTP response (requests follows redirects itself) with a     *)
(* status and a body that is JSON or not.  outbound is the list of         *)
(* requests.get calls the last /route request made, each with its reply.   *)
(***************************************************************************)
NetworkFailure == [kind |-> "network", status |-> 0, json |-> FALSE, body |-> ""]

HttpReply(status, json) ==
  [kind |-> "http", status |-> status, json |-> json,
   body |-> IF json THEN "{paths}" ELSE "<html>"]

\* response.raise_for_status(): raises HTTPError for 4xx and 5xx only
raise_for_status(reply) == 400 <= reply.status /\ reply.status < 600

\* get_route(start_lat, start_lon, end_lat, end_lon): [response, calls].
\* jsonErrorIsRequestException: whether the installed requests raises its
\* JSONDecodeError as a RequestException (first except) or as a plain
\* ValueError (second except).
get_route(q, reply, jsonErrorIsRequestException) ==
  IF GRAPHHOPPER_KEY = ""
  THEN [response |-> [status |-> 500, request |-> q, body |-> <<>>,
                      detail |-> Wrap(<<"Graphhopper API key not configured">>)],
        calls |-> <<>>]
  ELSE LET params == [url |-> "https://graphhopper.com/api/1/route",
                      point |-> <<<<q.start_lat, q.start_lon>>, <<q.end_lat, q.end_lon>>>>,
                      vehicle |-> "car",
                      key |-> GRAPHHOPPER_KEY,
                      points_encoded |-> "false"]
           calls == <<[params |-> params, reply |-> reply]>>
       IN IF reply.kind = "network" \/ raise_for_status(reply)
          THEN [response |-> [status |-> 500, request |-> q, body |-> <<>>,
                              detail |-> <<"Routing API error", reply.kind,
                                           ToString(reply.status)>>],
                calls |-> calls]
          ELSE IF ~reply.json
          THEN [response |-> [status |-> 500, request |-> q, body |-> <<>>,
                              detail |-> IF jsonErrorIsRequestException
                                         THEN <<"Routing API error", "JSONDecodeError">>
                                         ELSE <<"JSONDecodeError">>],
                calls |-> calls]
          ELSE [response |-> [status |-> 200, request |-> q, body |-> <<reply.body>>,
                              detail |-> <<>>],
                calls |-> calls]

(***************************************************************************)
(* Explored inputs.                                                        *)
(***************************************************************************)
\* A row kind: the latitude, longitude and Address cells of a row
Kind(lat, lon, address) == [lat |-> lat, lon |-> lon, address |-> address]

FillerKind == Kind("30", "0", "MG Road")

\* kinds of the rows that differ from the filler in the longer files
LongKinds == {Kind("0", "0", "MG Road"), Kind("", "0", "MG Road")}

RowKinds ==
  {FillerKind} \cup LongKinds \cup
  {Kind("abc", "0", "MG Road"), Kind("inf", "0", "MG Road"),
   Kind("0", "30", "MG Road"), Kind("30", "0", "")}

\* the i-th row of a file
Row(i, kind) ==
  ("Sr No" :> i) @@ ("Blood Bank Name" :> "BB") @@ ("Address" :> kind.address)
  @@ ("City" :> "Pune") @@ ("State" :> "MH")
  @@ ("latitude" :> kind.lat) @@ ("longitude" :> kind.lon)

FullHeader == [j \in DOMAIN col_mapping_values |-> Header(col_mapping_values[j], 0, 0)]

File(header, kinds) ==
  [exists |-> TRUE, header |-> header,
   rows |-> [i \in DOMAIN kinds |-> Row(i, kinds[i])]]

ShortFiles ==
  {File(FullHeader, kinds) :
     kinds \in UNION {[1..n -> RowKinds] : n \in 0..MaxFree}}

\* n rows, those at the positions of DOMAIN varied as varied says, the
\* others filler rows
Varied(n, varied) ==
  [i \in 1..n |-> IF i \in DOMAIN varied THEN varied[i] ELSE FillerKind]

LongFiles ==
  {File(FullHeader, Varied(n, varied)) :
     n \in (MaxFree + 1)..MaxRows,
     varied \in UNION {[P -> LongKinds] :
                         P \in {Q \in SUBSET (1..MaxRows) : Cardinality(Q) <= MaxVaried}}}

\* headers: each required column as is, dropped, or padded with whitespace
HeaderEdits == {"drop", "lead", "trail"}

Edited(edits) ==
  LET kept == SelectSeq(col_mapping_values,
                        LAMBDA c : ~(c \in DOMAIN edits /\ edits[c] = "drop"))
  IN [j \in DOMAIN kept |->
        IF kept[j] \in DOMAIN edits
        THEN IF edits[kept[j]] = "lead" THEN Header(kept[j], 1, 0)
             ELSE Header(kept[j], 0, 2)
        ELSE Header(kept[j], 0, 0)]

EditedFiles ==
  {File(Edited(edits), kinds) :
     edits \in UNION {[C -> HeaderEdits] :
                        C \in {D \in SUBSET Range(col_mapping_values) :
                                 Cardinality(D) <= MaxHeaderEdits}},
     kinds \in {<<FillerKind>>, <<Kind("abc", "0", "MG Road"), FillerKind>>}}

MissingFile == [exists |-> FALSE, header |-> <<>>, rows |-> <<>>]

CsvFiles == ShortFiles \cup LongFiles \cup EditedFiles \cup {MissingFile}

Latitudes == {0, 30}

Longitudes == {0}

Locations == [latitude : Latitudes, longitude : Longitudes]

Unset == [set |-> FALSE, value |-> ""]

Environs == {Unset, [set |-> TRUE, value |-> ""], [set |-> TRUE, value |-> "user-key"]}

RouteQueries == [start_lat : {0, 30}, start_lon : {0}, end_lat : {0, 30}, end_lon : {0, 30}]

Replies == {NetworkFailure} \cup {HttpReply(st, j) : st \in {200, 300, 404, 500}, j \in BOOLEAN}

(***************************************************************************)
(* The dataset endpoints.                                                  *)
(***************************************************************************)
Init ==
  /\ csv \in CsvFiles
  /\ environ = Unset
  /\ nearbyResponse = NoResponse
  /\ allResponse = NoResponse
  /\ routeResponse = NoResponse
  /\ outbound = <<>>

GetNearby ==
  \E location \in Locations :
    /\ nearbyResponse' = get_nearby(location)
    /\ UNCHANGED <<csv, environ, allResponse, routeResponse, outbound>>

GetAllBloodBanks ==
  /\ allResponse' = get_all_blood_banks
  /\ UNCHANGED <<csv, environ, nearbyResponse, routeResponse, outbound>>

Next == GetNearby \/ GetAllBloodBanks

Spec == Init /\ [][Next]_vars

(***************************************************************************)
(* The route endpoint.                                                     *)
(***************************************************************************)
RouteInit ==
  /\ csv = File(FullHeader, <<FillerKind>>)
  /\ environ \in Environs
  /\ nearbyResponse = NoResponse
  /\ allResponse = NoResponse
  /\ routeResponse = NoResponse
  /\ outbound = <<>>

GetRoute ==
  \E q \in RouteQueries, reply \in Replies, viaRequests \in BOOLEAN :
    LET r == get_route(q, reply, viaRequests)
    IN /\ routeResponse' = r.response
       /\ outbound' = r.calls
       /\ UNCHANGED <<csv, environ, nearbyResponse, allResponse>>

RouteNext == GetRoute

RouteSpec == RouteInit /\ [][RouteNext]_vars

(***************************************************************************)
(* Properties.                                                             *)
(***************************************************************************)
\* float "<=": False whenever an operand is NaN
LE(x, y) == x.k = "fin" /\ y.k = "fin" /\ x.v <= y.v

\* two distances are equal numbers
SameDistance(x, y) == x.k = "fin" /\ y.k = "fin" /\ x.v = y.v

\* the distance from the origin of the answered /nearby request to a bank
DistanceTo(bank) ==
  haversine(nearbyResponse.request.latitude, nearbyResponse.request.longitude,
            bank.latitude, bank.longitude).val

\* the ordinal of the source row a record was built from
SrOf(bank) == CHOOSE i \in DOMAIN csv.rows : Str(ToString(i)) = bank.id

\* the required columns the file's header lacks, whatever the whitespace
AbsentColumns ==
  {c \in Range(col_mapping_values) :
     \A j \in DOMAIN csv.header : csv.header[j].text # c}

\* the cell texts float() accepts once pandas has read them
FloatTexts == NumText \cup {"", "inf"}

\* the construction of a record from row i raises
ConstructionFails(i) ==
  \/ csv.rows[i]["latitude"] \notin FloatTexts
  \/ csv.rows[i]["longitude"] \notin FloatTexts

\* the record built from row i
RecordOf(i) ==
  [id |-> Str(ToString(i)),
   name |-> Str(csv.rows[i]["Blood Bank Name"]),
   address |-> Str(csv.rows[i]["Address"]),
   city |-> Str(csv.rows[i]["City"]),
   state |-> Str(csv.rows[i]["State"]),
   latitude |-> read_cell(csv.rows[i]["latitude"]),
   longitude |-> read_cell(csv.rows[i]["longitude"]),
   distance |-> None]

\* C1: the records of a /nearby response are in non-decreasing order of
\* their distance, which is the haversine distance from the request's origin
C1_SortedByDistance ==
  nearbyResponse.status = 200 =>
    LET body == nearbyResponse.body
    IN /\ \A i \in DOMAIN body : body[i].distance = DistanceTo(body[i])
       /\ \A i \in 1..(Len(body) - 1) : LE(body[i].distance, body[i + 1].distance)

\* C2: when the load succeeds with n records, /nearby answers with exactly
\* min(10, n) records
C2_ReturnsMinLimitN ==
  (load_blood_banks.ok /\ nearbyResponse.status # 0) =>
    /\ nearbyResponse.status = 200
    /\ Len(nearbyResponse.body) = Min(Limit, Len(load_blood_banks.banks))

\* C3: records of equal distance keep their source order in a /nearby
\* response, and of equal-distance records at the cut-off the earlier ones
\* are kept
C3_StableRanking ==
  nearbyResponse.status = 200 =>
    LET body == nearbyResponse.body
        omitted == {b \in Range(load_blood_banks.banks) :
                      \A i \in DOMAIN body : body[i].id # b.id}
    IN /\ \A i, j \in DOMAIN body :
            (i < j /\ SameDistance(body[i].distance, body[j].distance))
              => SrOf(body[i]) < SrOf(body[j])
       /\ \A b \in omitted : \A i \in DOMAIN body :
            SameDistance(DistanceTo(b), body[i].distance)
              => SrOf(body[i]) < SrOf(b)

\* C4: every record of a load has a latitude and a longitude parsed as
\* numbers from its source row (a row with an empty or unparseable
\* coordinate cell is not in the result), and there are at most as many
\* records as rows
C4_CoordinatesParsed ==
  allResponse.status = 200 =>
    /\ \A i \in DOMAIN allResponse.body :
         LET row == csv.rows[SrOf(allResponse.body[i])]
         IN /\ row["latitude"] \in NumText \cup {"inf"}
            /\ row["longitude"] \in NumText \cup {"inf"}
            /\ allResponse.body[i].latitude.k \in {"fin", "inf"}
            /\ allResponse.body[i].longitude.k \in {"fin", "inf"}
    /\ Len(allResponse.body) <= Len(csv.rows)

\* C5: with a readable file that has the required columns, the load is the
\* records of the rows whose construction succeeds, in row order: a failing
\* row is skipped and the rows around it are unaffected
C5_LoadIsSubsequence ==
  (csv.exists /\ AbsentColumns = {} /\ allResponse.status # 0) =>
    LET good == {i \in DOMAIN csv.rows : ~ConstructionFails(i)}
        body == allResponse.body
    IN /\ allResponse.status = 200
       /\ Len(body) = Cardinality(good)
       /\ \A k \in DOMAIN body :
            \E i \in good : /\ Cardinality({j \in good : j < i}) = k - 1
                            /\ body[k] = RecordOf(i)

\* C5 witness: a load answered with a failing row between two built rows
C5_Witness ==
  /\ allResponse.status = 200
  /\ \E i, j, k \in DOMAIN csv.rows :
       /\ i < j /\ j < k
       /\ ~ConstructionFails(i) /\ ConstructionFails(j) /\ ~ConstructionFails(k)
  /\ Len(allResponse.body) = 2

\* C6: a file lacking a required column (header whitespace aside) makes both
\* /nearby and /all-blood-banks answer a server error that names the missing
\* columns and carries no record; whitespace around a column name does not
\* make it missing
C6_MissingColumnsFail ==
  LET named == Wrap(<<"CSV Error", "CSV missing required columns">>
                      \o SelectSeq(col_mapping_values, LAMBDA c : c \in AbsentColumns))
      Fails(response) == /\ response.status = 500
                         /\ response.body = <<>>
                         /\ response.detail = named
  IN /\ (csv.exists /\ AbsentColumns # {}) =>
          /\ nearbyResponse.status # 0 => Fails(nearbyResponse)
          /\ allResponse.status # 0 => Fails(allResponse)
          /\ ~load_blood_banks.ok /\ load_blood_banks.banks = <<>>
     /\ (csv.exists /\ AbsentColumns = {}) =>
          /\ allResponse.status \in {0, 200}
          /\ load_blood_banks.ok

\* C6 witness: both endpoints answered for a file with rows, a padded column
\* name and a missing column
C6_Witness ==
  /\ csv.exists /\ AbsentColumns # {} /\ csv.rows # <<>>
  /\ \E j \in DOMAIN csv.header : csv.header[j].lead + csv.header[j].trail > 0
  /\ nearbyResponse.status = 500
  /\ allResponse.status = 500

\* C7: without the GRAPHHOPPER_API_KEY setting every /route request ends in
\* the configuration error and makes no outbound call
C7_NoKeyNoCall ==
  (~environ.set /\ routeResponse.status # 0) =>
    /\ routeResponse.status = 500
    /\ routeResponse.detail = Wrap(<<"Graphhopper API key not configured">>)
    /\ outbound = <<>>

\* C8: a /route request makes at most one outbound call; a network failure
\* or a non-success status of it ends the request in a 500 without a route
\* body; a 200 is answered only for a successful reply, with its body
C8_RouteSingleCall ==
  routeResponse.status # 0 =>
    /\ Len(outbound) <= 1
    /\ \A c \in DOMAIN outbound :
         (outbound[c].reply.kind = "network"
            \/ outbound[c].reply.status \notin 200..299)
           => (routeResponse.status = 500 /\ routeResponse.body = <<>>)
    /\ routeResponse.status = 200 =>
         /\ Len(outbound) = 1
         /\ outbound[1].reply.kind = "http"
         /\ outbound[1].reply.status \in 200..299
         /\ routeResponse.body = <<outbound[1].reply.body>>

\* C9: whatever requests were answered before, the records of an
\* /all-blood-banks response have no distance and the records of a /nearby
\* response have the distance from that request's own origin
C9_Stateless ==
  /\ allResponse.status = 200 =>
       \A i \in DOMAIN allResponse.body : allResponse.body[i].distance = None
  /\ nearbyResponse.status = 200 =>
       \A i \in DOMAIN nearbyResponse.body :
         nearbyResponse.body[i].distance = DistanceTo(nearbyResponse.body[i])

\* C9 witness: an /all-blood-banks response and a /nearby response with
\* non-zero distances, both answered over the same records
C9_Witness ==
  /\ allResponse.status = 200 /\ allResponse.body # <<>>
  /\ nearbyResponse.status = 200 /\ nearbyResponse.body # <<>>
  /\ \A i \in DOMAIN nearbyResponse.body :
       /\ nearbyResponse.body[i].distance.k = "fin"
       /\ nearbyResponse.body[i].distance.v > 0

\* C10: a /nearby response is min(10, n) distinct loaded records and no
\* loaded record left out is strictly closer than a returned one
C10_NearestReturned ==
  nearbyResponse.status = 200 =>
    LET body == nearbyResponse.body
        banks == load_blood_banks.banks
        omitted == {b \in Range(banks) : \A i \in DOMAIN body : body[i].id # b.id}
    IN /\ Len(body) = Min(Limit, Len(banks))
       /\ \A i \in DOMAIN body :
            \E b \in Range(banks) : body[i] = [b EXCEPT !.distance = DistanceTo(b)]
       /\ \A i, j \in DOMAIN body : i # j => body[i].id # body[j].id
       /\ \A b \in omitted : \A i \in DOMAIN body :
            ~ISLT(DistanceTo(b), body[i].distance)

====
